---------------------------- MODULE Spec2Model ----------------------------
(***************************************************************************)
(* Run lifecycle of the cheek job scheduler: the sqlite run store          *)
(* (InitDB, InsertOrUpdateJobRun), the executor (execCommandContext), the  *)
(* retry wrapper (execCommandWithRetryContext), finalize and the fan-out   *)
(* of OnEvent, with one task per goroutine.                                *)
(***************************************************************************)
EXTENDS Integers, Sequences, FiniteSets, TLC

VARIABLES sched, pending, db, opened, tasks, mutex, clock, ctxCancelled, panicked, Runs,
          op, poller

vars == <<sched, pending, db, opened, tasks, mutex, clock, ctxCancelled, panicked, Runs,
         op, poller>>

(***************************************************************************)
(* Bounds of the model.                                                    *)
(***************************************************************************)
MaxTasks == 6      \* goroutines (runs and webhook calls) per behaviour
MaxRetries == 1    \* largest retries value of a configured job
MaxClock == 1      \* readings of now() range over 0..MaxClock
MaxRows == 3       \* rows of the log table in the store specification
MaxLine == 3       \* line numbers of the log_lines specification: 1..MaxLine
MaxLineRows == 3   \* rows of the log_lines table

(***************************************************************************)
(* Program constants.                                                      *)
(***************************************************************************)
StatusOK == 0
StatusError == 0 - 1

\* A *int: Nil is the nil pointer, Some(v) points to v.
Nil == <<>>
Some(v) == <<v>>

\* Exit codes an ExitError can carry: -1 for a signalled child, else 1..255.
ExitCodes == {0 - 1, 2}

CancelledNotice == "Job cancelled due to scheduler shutdown"
RetryCancelledNotice == "\nJob cancelled during retry timeout"
KilledNotice == "\nJob killed due to scheduler shutdown"
NoCommandNotice == "Job unable to start: no command specified"
StartFailNotice == "job unable to start: exec error"
ChildOutput == "out\n"
ExitCodeNotice(c) == "Exit code: " \o ToString(c) \o "\n"

\* fmt.Sprintf("%s[retry=%d]", trigger, tries)
RetryTrigger(trigger, n) == trigger \o "[retry=" \o ToString(n) \o "]"

\* fmt.Sprintf("job[%s]", j.Name)
JobTrigger(name) == "job[" \o name \o "]"

(***************************************************************************)
(* The run store: table log of part_000.                                   *)
(***************************************************************************)
ZeroRun ==
  [LogEntryId |-> 0, Status |-> Nil, logBuf |-> <<>>, Log |-> <<>>, Name |-> "",
   TriggeredAt |-> 0, TriggeredBy |-> "", Duration |-> 0]

\* A database file that has no log table yet.
EmptyDB ==
  [hasTable |-> FALSE, hasUnique |-> FALSE, log |-> {}, seq |-> 0, lastRowid |-> 0,
   hasLines |-> FALSE, log_lines |-> {}, lineSeq |-> 0]

RowKey(r) == <<r.job, r.triggered_at, r.triggered_by>>

RunKey(jr) == <<jr.Name, jr.TriggeredAt, jr.TriggeredBy>>

MinId(rows) == CHOOSE i \in {r.id : r \in rows} : \A r \in rows : i <= r.id

MaxId(rows) == CHOOSE i \in {r.id : r \in rows} : \A r \in rows : i >= r.id

InitDBKeepMax(d) ==
  LET withTable == IF d.hasTable THEN [d EXCEPT !.hasLines = TRUE]
                   ELSE [d EXCEPT !.hasTable = TRUE, !.hasUnique = TRUE,
                                  !.hasLines = TRUE]
      keep == {r \in withTable.log :
                 r.id = MaxId({q \in withTable.log : RowKey(q) = RowKey(r)})}
  IN [withTable EXCEPT !.log = keep]

\* InitDB: CREATE TABLE IF NOT EXISTS for log (an existing table keeps its own
\* constraints) and for log_lines, then the purge that keeps the minimum id
\* per key.
InitDB(d) ==
  LET withTable == IF d.hasTable THEN [d EXCEPT !.hasLines = TRUE]
                   ELSE [d EXCEPT !.hasTable = TRUE, !.hasUnique = TRUE,
                                  !.hasLines = TRUE]
      keep == {r \in withTable.log :
                 r.id = MinId({q \in withTable.log : RowKey(q) = RowKey(r)})}
  IN [withTable EXCEPT !.log = keep]

IsRunning(status) == IF status = Nil THEN 1 ELSE 0

InsertOrUpdateJobRunNoConflict(d, jr) ==
  LET id == d.seq + 1
      row == [id |-> id, job |-> jr.Name, triggered_at |-> jr.TriggeredAt,
              triggered_by |-> jr.TriggeredBy, duration |-> jr.Duration,
              status |-> jr.Status, message |-> jr.Log,
              is_running |-> IsRunning(jr.Status)]
  IN [db |-> [d EXCEPT !.log = @ \cup {row}, !.seq = id, !.lastRowid = id],
      jr |-> [jr EXCEPT !.LogEntryId = IF @ = 0 THEN id ELSE @],
      err |-> FALSE]

InsertOrUpdateJobRunKeepsRunning(d, jr) ==
  LET hit == {r \in d.log : RowKey(r) = RunKey(jr)}
      upd(r) == [r EXCEPT !.duration = jr.Duration, !.status = jr.Status,
                          !.message = jr.Log]
      r0 == InsertOrUpdateJobRunNoConflict(d, jr)
  IN IF ~d.hasTable \/ ~d.hasUnique THEN [db |-> d, jr |-> jr, err |-> TRUE]
     ELSE IF hit = {} THEN r0
     ELSE [db |-> [d EXCEPT !.log = {IF r \in hit THEN upd(r) ELSE r : r \in d.log}],
           jr |-> [jr EXCEPT !.LogEntryId = CHOOSE i \in {r.id : r \in hit} : TRUE],
           err |-> FALSE]

\* InsertOrUpdateJobRun: the upsert on (job, triggered_at, triggered_by) and
\* the fill of jr.LogEntryId.  The statement fails when the table has no
\* UNIQUE constraint matching the ON CONFLICT target.
InsertOrUpdateJobRun(d, jr) ==
  LET hit == {r \in d.log : RowKey(r) = RunKey(jr)}
      upd(r) == [r EXCEPT !.duration = jr.Duration, !.status = jr.Status,
                          !.message = jr.Log,
                          !.is_running = IsRunning(jr.Status)]
      d1 == IF hit = {}
              THEN LET id == d.seq + 1
                   IN [d EXCEPT !.log = @ \cup
                          {[id |-> id, job |-> jr.Name,
                            triggered_at |-> jr.TriggeredAt,
                            triggered_by |-> jr.TriggeredBy,
                            duration |-> jr.Duration, status |-> jr.Status,
                            message |-> jr.Log,
                            is_running |-> IsRunning(jr.Status)]},
                        !.seq = id, !.lastRowid = id]
              ELSE [d EXCEPT !.log = {IF r \in hit THEN upd(r) ELSE r : r \in d.log}]
      lastId == d1.lastRowid
      found == {r.id : r \in {q \in d1.log : RowKey(q) = RunKey(jr)}}
      newId == IF jr.LogEntryId # 0 THEN jr.LogEntryId
               ELSE IF lastId > 0 THEN lastId
               ELSE CHOOSE i \in found : TRUE
  IN IF ~d.hasTable \/ ~d.hasUnique
       THEN [db |-> d, jr |-> jr, err |-> TRUE]
       ELSE [db |-> d1, jr |-> [jr EXCEPT !.LogEntryId = newId], err |-> FALSE]

(***************************************************************************)
(* LoadJobRun and LoadJobRuns.  The queries do not select the job column,  *)
(* so the loaded run has an empty Name.  Rows with equal triggered_at come *)
(* in an order the query does not fix: the operators give every result the *)
(* query can return.                                                       *)
(***************************************************************************)
RowToRun(r, withMessage) ==
  [ZeroRun EXCEPT !.LogEntryId = r.id, !.TriggeredAt = r.triggered_at,
                  !.TriggeredBy = r.triggered_by, !.Duration = r.duration,
                  !.Status = r.status,
                  !.Log = IF withMessage THEN r.message ELSE <<>>]

\* the orders ORDER BY triggered_at DESC can give to a set of rows
NewestFirst(rows) ==
  {f \in [1..Cardinality(rows) -> rows] :
     /\ \A i, j \in DOMAIN f : i # j => f[i] # f[j]
     /\ \A i, j \in DOMAIN f : i < j => f[i].triggered_at >= f[j].triggered_at}

OldestFirst(rows) ==
  {f \in [1..Cardinality(rows) -> rows] :
     /\ \A i, j \in DOMAIN f : i # j => f[i] # f[j]
     /\ \A i, j \in DOMAIN f : i < j => f[i].triggered_at <= f[j].triggered_at}

\* LIMIT n: a negative n is no limit
Limit(f, n) == IF n < 0 \/ n >= Len(f) THEN f ELSE SubSeq(f, 1, n)

LoadJobRunOldest(d, jobName, id) ==
  LET rows == IF id = 0 - 1 THEN {r \in d.log : r.job = jobName}
              ELSE {r \in d.log : r.id = id}
  IN IF ~d.hasTable \/ rows = {} THEN {[jr |-> ZeroRun, err |-> TRUE]}
     ELSE {[jr |-> RowToRun(f[1], TRUE), err |-> FALSE] : f \in OldestFirst(rows)}

\* LoadJobRun: the first row of the job, newest first, when id is -1, else
\* the row with the id; sql.ErrNoRows when there is none.
LoadJobRun(d, jobName, id) ==
  LET rows == IF id = 0 - 1 THEN {r \in d.log : r.job = jobName}
              ELSE {r \in d.log : r.id = id}
  IN IF ~d.hasTable \/ rows = {} THEN {[jr |-> ZeroRun, err |-> TRUE]}
     ELSE {[jr |-> RowToRun(f[1], TRUE), err |-> FALSE] : f \in NewestFirst(rows)}

LoadJobRunsOldestFirst(d, jobName, nruns, includeLogs) ==
  LET rows == {r \in d.log : r.job = jobName}
  IN IF ~d.hasTable THEN {[runs |-> <<>>, err |-> TRUE]}
     ELSE {[runs |-> [i \in DOMAIN Limit(f, nruns) |-> RowToRun(f[i], includeLogs)],
            err |-> FALSE] : f \in OldestFirst(rows)}

\* LoadJobRuns: the rows of the job, newest first, cut by LIMIT
LoadJobRuns(d, jobName, nruns, includeLogs) ==
  LET rows == {r \in d.log : r.job = jobName}
  IN IF ~d.hasTable THEN {[runs |-> <<>>, err |-> TRUE]}
     ELSE {[runs |-> [i \in DOMAIN Limit(f, nruns) |-> RowToRun(f[i], includeLogs)],
            err |-> FALSE] : f \in NewestFirst(rows)}

(***************************************************************************)
(* The log_lines table.                                                    *)
(***************************************************************************)
LineKey(l) == <<l.job_run_id, l.line_number>>

InsertLogLineNoUnique(d, jobRunID, lineNumber, content, stream, now) ==
  LET id == d.lineSeq + 1
      line == [id |-> id, job_run_id |-> jobRunID, line_number |-> lineNumber,
               timestamp |-> now, content |-> content, stream |-> stream]
  IN IF ~d.hasLines THEN [db |-> d, err |-> TRUE]
     ELSE [db |-> [d EXCEPT !.log_lines = @ \cup {line}, !.lineSeq = id,
                            !.lastRowid = id],
           err |-> FALSE]

\* InsertLogLine: a plain INSERT; it fails when the table is missing or the
\* UNIQUE(job_run_id, line_number) constraint is violated, and a failed
\* statement leaves the table as it was.
InsertLogLine(d, jobRunID, lineNumber, content, stream, now) ==
  LET id == d.lineSeq + 1
      line == [id |-> id, job_run_id |-> jobRunID, line_number |-> lineNumber,
               timestamp |-> now, content |-> content, stream |-> stream]
      dup == \E l \in d.log_lines : LineKey(l) = <<jobRunID, lineNumber>>
  IN IF ~d.hasLines \/ dup THEN [db |-> d, err |-> TRUE]
     ELSE [db |-> [d EXCEPT !.log_lines = @ \cup {line}, !.lineSeq = id,
                            !.lastRowid = id],
           err |-> FALSE]

\* ORDER BY line_number ASC
RECURSIVE SortLines(_)
SortLines(ls) ==
  IF ls = {} THEN <<>>
  ELSE LET m == CHOOSE l \in ls : \A k \in ls : l.line_number <= k.line_number
       IN <<m>> \o SortLines(ls \ {m})

GetLogLinesAnyRun(d, jobRunID, afterLineNumber) ==
  IF ~d.hasLines THEN [lines |-> <<>>, err |-> TRUE]
  ELSE [lines |-> SortLines({l \in d.log_lines : l.line_number > afterLineNumber}),
        err |-> FALSE]

GetLogLinesInclusive(d, jobRunID, afterLineNumber) ==
  IF ~d.hasLines THEN [lines |-> <<>>, err |-> TRUE]
  ELSE [lines |-> SortLines({l \in d.log_lines :
                               /\ l.job_run_id = jobRunID
                               /\ l.line_number >= afterLineNumber}),
        err |-> FALSE]

\* GetLogLines: the lines of the run after the cursor, nil and an error when
\* the query fails.
GetLogLines(d, jobRunID, afterLineNumber) ==
  IF ~d.hasLines THEN [lines |-> <<>>, err |-> TRUE]
  ELSE [lines |-> SortLines({l \in d.log_lines :
                               /\ l.job_run_id = jobRunID
                               /\ l.line_number > afterLineNumber}),
        err |-> FALSE]

(***************************************************************************)
(* Schedules: the configurations the runs are drawn from.                  *)
(***************************************************************************)
Hooks(jobs, hooks, slack, discord) ==
  [TriggerJob |-> jobs, NotifyWebhook |-> hooks, NotifySlackWebhook |-> slack,
   NotifyDiscordWebhook |-> discord]

NoHooks == Hooks(<<>>, <<>>, <<>>, <<>>)

Job(cmd, retries, serial, onSuccess, onError) ==
  [Command |-> cmd, Retries |-> retries, DisableConcurrentExecution |-> serial,
   OnSuccess |-> onSuccess, OnError |-> onError]

\* hasSchedule: the jobs have an owning schedule (globalSchedule # nil).
\* store: "db" a store opened by OpenDB, "legacy" a log table created before
\* the UNIQUE constraint existed, "none" cfg.DB = nil.
Schedule(hasSchedule, store, onSuccess, onError, jobs) ==
  [hasSchedule |-> hasSchedule, store |-> store, OnSuccess |-> onSuccess,
   OnError |-> onError, Jobs |-> jobs]

\* The commands of the model, by what the child does: "sh" is an arbitrary
\* script, "true" exits 0, "false" exits with a non-zero code, <<>> is the
\* empty command.
CmdAny == <<"sh">>
CmdTrue == <<"true">>
CmdFalse == <<"false">>

Call(kind, job) == [kind |-> kind, job |-> job]

Scenario(schedule, calls) == [schedule |-> schedule, calls |-> calls]

OnlyJobs(names) == Hooks(names, <<>>, <<>>, <<>>)

Scenarios ==
  \* one job, every retries value, one call
  { Scenario(Schedule(TRUE, "db", NoHooks, NoHooks,
                      "A" :> Job(CmdAny, r, FALSE, NoHooks, NoHooks)),
             <<Call("retry", "A")>>) : r \in 0..MaxRetries }
  \cup
  { \* two calls, or a call and RunJob, on one job, serial or not
    Scenario(Schedule(TRUE, "db", NoHooks, NoHooks,
                      "A" :> Job(c, 0, serial, NoHooks, NoHooks)),
             <<Call(k, "A"), Call("retry", "A")>>) :
      c \in {CmdTrue, CmdFalse}, serial \in BOOLEAN, k \in {"retry", "RunJob"} }
  \cup
  { \* B is named by A's own on_success and by the schedule-wide on_success
    \* (B fails, or the schedule-wide hook would trigger it again without end)
    Scenario(Schedule(TRUE, "db", OnlyJobs(<<"B">>), NoHooks,
                      "A" :> Job(CmdTrue, 0, FALSE, OnlyJobs(<<"B">>), NoHooks)
                      @@ "B" :> Job(CmdFalse, 0, FALSE, NoHooks, NoHooks)),
             <<Call("retry", "A")>>),
    \* the same with a serial B that is also called from outside
    Scenario(Schedule(TRUE, "db", OnlyJobs(<<"B">>), NoHooks,
                      "A" :> Job(CmdTrue, 0, FALSE, OnlyJobs(<<"B">>), NoHooks)
                      @@ "B" :> Job(CmdFalse, 0, TRUE, NoHooks, NoHooks)),
             <<Call("retry", "A"), Call("retry", "B")>>),
    \* a retrying job with hooks on both events
    Scenario(Schedule(TRUE, "db", NoHooks, NoHooks,
                      "A" :> Job(CmdAny, MaxRetries, FALSE,
                                 Hooks(<<"B">>, <<>>, <<"s">>, <<>>),
                                 OnlyJobs(<<"B">>))
                      @@ "B" :> Job(CmdFalse, 0, TRUE, NoHooks,
                                    Hooks(<<>>, <<"w">>, <<>>, <<>>))),
             <<Call("retry", "A")>>),
    \* a serial job that triggers itself
    Scenario(Schedule(TRUE, "db", NoHooks, NoHooks,
                      "A" :> Job(CmdTrue, 0, TRUE, OnlyJobs(<<"A">>), NoHooks)),
             <<Call("retry", "A")>>),
    \* a trigger cycle A -> B -> A
    Scenario(Schedule(TRUE, "db", NoHooks, NoHooks,
                      "A" :> Job(CmdTrue, 0, FALSE, OnlyJobs(<<"B">>), NoHooks)
                      @@ "B" :> Job(CmdTrue, 0, FALSE, OnlyJobs(<<"A">>), NoHooks)),
             <<Call("retry", "A")>>),
    \* a hook names a job that is not in the schedule
    Scenario(Schedule(TRUE, "db", Hooks(<<>>, <<>>, <<>>, <<"d">>), NoHooks,
                      "A" :> Job(CmdTrue, 0, FALSE, OnlyJobs(<<"X", "B">>), NoHooks)
                      @@ "B" :> Job(CmdTrue, 0, FALSE, NoHooks, NoHooks)),
             <<Call("retry", "A")>>),
    \* jobs without an owning schedule, without and with a downstream job
    Scenario(Schedule(FALSE, "db", NoHooks, NoHooks,
                      "A" :> Job(CmdAny, MaxRetries, FALSE, NoHooks, NoHooks)),
             <<Call("retry", "A")>>),
    Scenario(Schedule(FALSE, "db", NoHooks, NoHooks,
                      "A" :> Job(CmdFalse, 0, FALSE, NoHooks, OnlyJobs(<<"A">>))),
             <<Call("retry", "A")>>),
    \* a store whose writes fail, with and without an owning schedule
    Scenario(Schedule(TRUE, "legacy", NoHooks, NoHooks,
                      "A" :> Job(CmdAny, MaxRetries, FALSE, NoHooks, NoHooks)),
             <<Call("retry", "A")>>),
    Scenario(Schedule(FALSE, "legacy", NoHooks, NoHooks,
                      "A" :> Job(CmdTrue, 0, FALSE, NoHooks, NoHooks)),
             <<Call("retry", "A")>>),
    \* no store configured
    Scenario(Schedule(TRUE, "none", NoHooks, NoHooks,
                      "A" :> Job(CmdTrue, 0, FALSE, OnlyJobs(<<"A">>), NoHooks)),
             <<Call("retry", "A"), Call("retry", "A")>>),
    \* an empty command
    Scenario(Schedule(TRUE, "db", NoHooks, NoHooks,
                      "A" :> Job(<<>>, MaxRetries, FALSE, NoHooks, NoHooks)),
             <<Call("retry", "A")>>) }

JobNames == DOMAIN sched.Jobs

HasDB == sched.store # "none"

\* A log table that predates the UNIQUE constraint (and holds duplicates).
LegacyRow(id, at, status) ==
  [id |-> id, job |-> "A", triggered_at |-> at, triggered_by |-> "manual",
   duration |-> 0, status |-> status, message |-> <<>>, is_running |-> 0]

LegacyDB ==
  [hasTable |-> TRUE, hasUnique |-> FALSE,
   log |-> {LegacyRow(1, 0, Some(0)), LegacyRow(2, 0, Some(2))},
   seq |-> 2, lastRowid |-> 0, hasLines |-> FALSE, log_lines |-> {}, lineSeq |-> 0]

\* The caller of the store functions: op is the last call with the store it
\* found and what it returned, poller a client that tails the lines of a run.
NoOp == [name |-> "none"]

NoPoller == [id |-> 0, cursor |-> 0, received |-> <<>>]

\* OpenDB: sqlx.Open followed by InitDB.
OpenDB(file) == InitDB(file)

\* The program opens its store; InitDB may run again on an open store.
Open ==
  /\ ~panicked /\ HasDB
  /\ db' = OpenDB(db)
  /\ opened' = TRUE
  /\ UNCHANGED <<op, poller, sched, pending, tasks, mutex, clock, ctxCancelled, panicked, Runs>>


(***************************************************************************)
(* Tasks.  tasks[t] is one goroutine: a call of execCommandWithRetryContext *)
(* ("retry"), a call of RunJob ("RunJob") or a webhook call ("webhook").   *)
(* parent = 0 for a call from outside; gen is the number of the parent's   *)
(* OnEvent call that spawned the task.  execs lists the statuses the       *)
(* executor returned to this call, cancelled records whether the call's    *)
(* context was seen cancelled, fired counts the back-off timers of the     *)
(* call that have fired, runsRead is the value of j.Runs that the append   *)
(* of finalize has read and not yet written back.                          *)
(***************************************************************************)
Task(kind, job, trigger, parent, gen, ctx, pc, jr) ==
  [kind |-> kind, job |-> job, trigger |-> trigger, parent |-> parent,
   gen |-> gen, ctx |-> ctx, pc |-> pc, tries |-> 0, jr |-> jr,
   locked |-> FALSE, ret |-> FALSE, events |-> 0, execs |-> <<>>,
   execTrigger |-> "", last |-> [path |-> "", code |-> 0], cancelled |-> FALSE, hook |-> "",
   pstatus |-> Nil, fired |-> 0, runsRead |-> <<>>]

TaskIds == 1..Len(tasks)

JobOf(t) == sched.Jobs[tasks[t].job]

\* ctx.Err() # nil
CtxErr(t) == tasks[t].ctx = "root" /\ ctxCancelled

Children(t, gen) == {c \in TaskIds : tasks[c].parent = t /\ tasks[c].gen = gen}

\* JobSpec.now
Now == clock

\* JobSpec.setup and JobRun.logToDb: the run and the store after the call;
\* panic when the store fails and the job has no owning schedule.
LogToDb(d, jr) ==
  IF ~HasDB THEN [db |-> d, jr |-> jr, panic |-> FALSE]
  ELSE LET r == InsertOrUpdateJobRun(d, jr)
       IN [db |-> r.db, jr |-> r.jr, panic |-> r.err /\ ~sched.hasSchedule]

SetupRun(name, trigger) ==
  [ZeroRun EXCEPT !.Name = name, !.TriggeredAt = Now, !.TriggeredBy = trigger]

\* JobRun.flushLogBuffer
FlushLogBuffer(jr) == [jr EXCEPT !.Log = jr.logBuf]

\* A return of the goroutine body: the deferred Unlock runs.
Unlocked(t) ==
  IF tasks[t].locked THEN [mutex EXCEPT ![tasks[t].job] = FALSE] ELSE mutex

(***************************************************************************)
(* Calls from outside.                                                     *)
(***************************************************************************)
\* execCommandWithRetryContext(ctx, "manual") on job j
Trigger(j) ==
  /\ ~panicked /\ Len(tasks) < MaxTasks /\ (HasDB => opened)
  /\ pending # <<>> /\ Head(pending) = Call("retry", j)
  /\ pending' = Tail(pending)
  /\ tasks' = Append(tasks, Task("retry", j, "manual", 0, 0, "root", "setup", ZeroRun))
  /\ UNCHANGED <<op, poller, sched, opened, db, mutex, clock, ctxCancelled, panicked, Runs>>

\* RunJob(log, cfg, scheduleFn, j)
RunJob(j) ==
  /\ ~panicked /\ Len(tasks) < MaxTasks /\ (HasDB => opened)
  /\ pending # <<>> /\ Head(pending) = Call("RunJob", j)
  /\ pending' = Tail(pending)
  /\ tasks' = Append(tasks, Task("RunJob", j, "manual", 0, 0, "background", "setup", ZeroRun))
  /\ UNCHANGED <<op, poller, sched, opened, db, mutex, clock, ctxCancelled, panicked, Runs>>

\* time passes between two readings of now()
Tick ==
  /\ ~panicked /\ clock < MaxClock
  /\ clock' = clock + 1
  /\ UNCHANGED <<op, poller, sched, pending, opened, db, tasks, mutex, ctxCancelled, panicked, Runs>>

\* the context handed to the calls is cancelled
Cancel ==
  /\ ~panicked /\ ~ctxCancelled
  /\ ctxCancelled' = TRUE
  /\ UNCHANGED <<op, poller, sched, pending, opened, db, tasks, mutex, clock, panicked, Runs>>

(***************************************************************************)
(* The goroutine of a downstream job (OnEvent, lines 386-394).             *)
(***************************************************************************)
Go(t) ==
  /\ ~panicked /\ tasks[t].pc = "go"
  /\ IF tasks[t].job \notin JobNames
       THEN \* tj is nil: tj.DisableConcurrentExecution panics
            /\ panicked' = TRUE
            /\ UNCHANGED <<tasks, mutex>>
       ELSE /\ JobOf(t).DisableConcurrentExecution => ~mutex[tasks[t].job]
            /\ mutex' = IF JobOf(t).DisableConcurrentExecution
                          THEN [mutex EXCEPT ![tasks[t].job] = TRUE] ELSE mutex
            /\ tasks' = [tasks EXCEPT ![t].pc = "setup",
                                      ![t].locked = JobOf(t).DisableConcurrentExecution]
            /\ UNCHANGED panicked
  /\ UNCHANGED <<op, poller, sched, pending, opened, db, clock, ctxCancelled, Runs>>

(***************************************************************************)
(* setup                                                                   *)
(***************************************************************************)
Setup(t) ==
  /\ ~panicked /\ tasks[t].pc = "setup"
  /\ LET r == LogToDb(db, SetupRun(tasks[t].job, tasks[t].trigger))
     IN /\ db' = r.db
        /\ panicked' = r.panic
        /\ tasks' = [tasks EXCEPT ![t].jr = r.jr, ![t].pc = "loop"]
  /\ UNCHANGED <<op, poller, sched, pending, opened, mutex, clock, ctxCancelled, Runs>>


(***************************************************************************)
(* execCommandContext                                                      *)
(***************************************************************************)
\* what cmd.Wait can return: nil, an *exec.ExitError, another error; a
\* cancelled context kills the child (ExitError, code -1) or replaces a clean
\* exit by the context's error
WaitResults(cmd, ctxErr) ==
  LET nil == {[kind |-> "nil", code |-> 0]}
      exit == {[kind |-> "exit", code |-> c] : c \in ExitCodes \ {StatusError}}
      killed == {[kind |-> "exit", code |-> StatusError], [kind |-> "other", code |-> 0]}
  IN (CASE cmd = CmdTrue -> nil
        [] cmd = CmdFalse -> exit
        [] OTHER -> nil \cup exit \cup killed)
     \cup (IF ctxErr THEN killed ELSE {})

\* whether cmd.Start can succeed / fail
StartResults(cmd) == IF cmd = CmdAny THEN BOOLEAN ELSE {TRUE}

\* case 0 of the switch on len(j.Command)
ExecNoCommand(jr) ==
  [jr EXCEPT !.Log = <<NoCommandNotice>>, !.Status = Some(StatusError)]

\* cmd.Start failed
ExecStartFailed(jr) ==
  [jr EXCEPT !.logBuf = Append(@, StartFailNotice), !.Log = <<StartFailNotice>>,
             !.Status = Some(StatusError)]

ExecWaitedIgnoreCancel(jr, res, ctxErr, now) ==
  LET out == [jr EXCEPT !.logBuf = Append(@, ChildOutput)]
  IN CASE res.kind = "nil" ->
            [out EXCEPT !.Status = Some(StatusOK), !.Duration = now - jr.TriggeredAt]
       [] res.kind = "exit" ->
            [out EXCEPT !.Status = Some(res.code),
                        !.Log = Append(@, ExitCodeNotice(res.code)),
                        !.Duration = now - jr.TriggeredAt]
       [] OTHER -> [out EXCEPT !.Status = Some(StatusError)]

\* cmd.Wait returned res; the child wrote its output to the log buffer
ExecWaited(jr, res, ctxErr, now) ==
  LET out == [jr EXCEPT !.logBuf = Append(@, ChildOutput)]
  IN CASE res.kind = "nil" ->
            [out EXCEPT !.Status = Some(StatusOK), !.Duration = now - jr.TriggeredAt]
       [] res.kind = "exit" /\ ctxErr ->
            [out EXCEPT !.Log = Append(@, KilledNotice), !.Status = Some(StatusError),
                        !.Duration = now - jr.TriggeredAt]
       [] res.kind = "exit" /\ ~ctxErr ->
            [out EXCEPT !.Status = Some(res.code),
                        !.Log = Append(@, ExitCodeNotice(res.code)),
                        !.Duration = now - jr.TriggeredAt]
       [] OTHER -> [out EXCEPT !.Status = Some(StatusError)]

AttemptsAllowedOneLess(j) == j.Retries

\* the bound of the attempt loop: tries < j.Retries+1
AttemptsAllowed(j) == j.Retries + 1

\* the trigger handed to the executor for attempt n
AttemptTrigger(trigger, n) == IF n = 0 THEN trigger ELSE RetryTrigger(trigger, n)

CancelledBeforeAttemptNoFinalize(t) ==
  /\ ~panicked /\ tasks[t].pc = "loop" /\ tasks[t].kind = "retry"
  /\ tasks[t].tries < AttemptsAllowed(JobOf(t)) /\ CtxErr(t)
  /\ tasks' = [tasks EXCEPT ![t].jr = [@ EXCEPT !.Log = <<CancelledNotice>>,
                                                 !.Status = Some(StatusError)],
                            ![t].cancelled = TRUE,
                            ![t].pc = "done", ![t].locked = FALSE]
  /\ UNCHANGED <<op, poller, sched, pending, opened, db, mutex, clock, ctxCancelled, panicked, Runs>>

\* line 141: the context is cancelled before an attempt
CancelledBeforeAttempt(t) ==
  /\ ~panicked /\ tasks[t].pc = "loop" /\ tasks[t].kind = "retry"
  /\ tasks[t].tries < AttemptsAllowed(JobOf(t)) /\ CtxErr(t)
  /\ tasks' = [tasks EXCEPT ![t].jr = [@ EXCEPT !.Log = <<CancelledNotice>>,
                                                 !.Status = Some(StatusError)],
                            ![t].ret = TRUE, ![t].cancelled = TRUE,
                            ![t].pc = "finalize"]
  /\ UNCHANGED <<op, poller, sched, pending, opened, db, mutex, clock, ctxCancelled, panicked, Runs>>

\* line 139: the loop condition fails, return jr
LoopExit(t) ==
  /\ ~panicked /\ tasks[t].pc = "loop" /\ tasks[t].kind = "retry"
  /\ ~(tasks[t].tries < AttemptsAllowed(JobOf(t)))
  /\ tasks' = [tasks EXCEPT ![t].pc = "done", ![t].locked = FALSE]
  /\ mutex' = Unlocked(t)
  /\ UNCHANGED <<op, poller, sched, pending, opened, db, clock, ctxCancelled, panicked, Runs>>

ExecStartIgnoreCtx(t) ==
  /\ ~panicked /\ tasks[t].pc = "loop"
  /\ \/ tasks[t].kind = "RunJob"
     \/ tasks[t].kind = "retry" /\ tasks[t].tries < AttemptsAllowed(JobOf(t))
  /\ LET trig == AttemptTrigger(tasks[t].trigger, tasks[t].tries)
     IN IF Len(JobOf(t).Command) = 0
          THEN tasks' = [tasks EXCEPT ![t].jr = ExecNoCommand(@),
                                      ![t].execTrigger = trig,
                                      ![t].last = [path |-> "nocommand", code |-> 0],
                                      ![t].execs = Append(@, StatusError),
                                      ![t].pc = "finalize"]
          ELSE \E started \in StartResults(JobOf(t).Command) :
                 IF started
                   THEN tasks' = [tasks EXCEPT ![t].execTrigger = trig,
                                               ![t].last = [path |-> "started", code |-> 0],
                                               ![t].pc = "wait"]
                   ELSE tasks' = [tasks EXCEPT ![t].jr = ExecStartFailed(@),
                                               ![t].execTrigger = trig,
                                               ![t].last = [path |-> "startfail", code |-> 0],
                                               ![t].execs = Append(@, StatusError),
                                               ![t].pc = "finalize"]
  /\ UNCHANGED <<op, poller, sched, pending, opened, db, mutex, clock, ctxCancelled, panicked, Runs>>

\* the executor up to cmd.Start
ExecStart(t) ==
  /\ ~panicked /\ tasks[t].pc = "loop"
  /\ \/ tasks[t].kind = "RunJob"
     \/ tasks[t].kind = "retry" /\ tasks[t].tries < AttemptsAllowed(JobOf(t)) /\ ~CtxErr(t)
  /\ LET trig == AttemptTrigger(tasks[t].trigger, tasks[t].tries)
     IN IF Len(JobOf(t).Command) = 0
          THEN tasks' = [tasks EXCEPT ![t].jr = ExecNoCommand(@),
                                      ![t].execTrigger = trig,
                                      ![t].last = [path |-> "nocommand", code |-> 0],
                                      ![t].execs = Append(@, StatusError),
                                      ![t].pc = "finalize"]
          ELSE \E started \in StartResults(JobOf(t).Command) :
                 IF started
                   THEN tasks' = [tasks EXCEPT ![t].execTrigger = trig,
                                               ![t].last = [path |-> "started", code |-> 0],
                                               ![t].pc = "wait"]
                   ELSE tasks' = [tasks EXCEPT ![t].jr = ExecStartFailed(@),
                                               ![t].execTrigger = trig,
                                               ![t].last = [path |-> "startfail", code |-> 0],
                                               ![t].execs = Append(@, StatusError),
                                               ![t].pc = "finalize"]
  /\ UNCHANGED <<op, poller, sched, pending, opened, db, mutex, clock, ctxCancelled, panicked, Runs>>

\* the executor from cmd.Wait to its return
ExecWait(t) ==
  /\ ~panicked /\ tasks[t].pc = "wait"
  /\ \E res \in WaitResults(JobOf(t).Command, CtxErr(t)) :
       LET jr == ExecWaited(tasks[t].jr, res, CtxErr(t), Now)
       IN tasks' = [tasks EXCEPT ![t].jr = jr,
                                 ![t].last = [path |-> IF res.kind = "exit" /\ CtxErr(t)
                                                         THEN "killed" ELSE res.kind,
                                              code |-> res.code],
                                 ![t].cancelled = @ \/ (res.kind = "exit" /\ CtxErr(t)),
                                 ![t].execs = Append(@, jr.Status[1]),
                                 ![t].pc = "finalize"]
  /\ UNCHANGED <<op, poller, sched, pending, opened, db, mutex, clock, ctxCancelled, panicked, Runs>>


(***************************************************************************)
(* finalize and OnEvent                                                    *)
(***************************************************************************)
RECURSIVE Flatten(_)
Flatten(ss) == IF ss = <<>> THEN <<>> ELSE Head(ss) \o Flatten(Tail(ss))

EventsBoth(j, status) ==
  <<j.OnSuccess, j.OnError>>
  \o (IF sched.hasSchedule THEN <<sched.OnSuccess, sched.OnError>> ELSE <<>>)

\* lines 354-365: the hooks of the event, the job's own first
Events(j, status) ==
  IF status = StatusOK
    THEN <<j.OnSuccess>> \o (IF sched.hasSchedule THEN <<sched.OnSuccess>> ELSE <<>>)
    ELSE <<j.OnError>> \o (IF sched.hasSchedule THEN <<sched.OnError>> ELSE <<>>)

JobsToTriggerOwnOnly(j, status) ==
  IF status = StatusOK THEN j.OnSuccess.TriggerJob ELSE j.OnError.TriggerJob

\* line 368
JobsToTrigger(j, status) ==
  LET ev == Events(j, status)
  IN Flatten([i \in 1..Len(ev) |-> ev[i].TriggerJob])

Named(name, urls) == [i \in 1..Len(urls) |-> [name |-> name, url |-> urls[i]]]

\* lines 369-377
WebhooksToCall(j, status) ==
  LET ev == Events(j, status)
  IN Flatten([i \in 1..Len(ev) |->
                Named("generic", ev[i].NotifyWebhook)
                \o Named("slack", ev[i].NotifySlackWebhook)
                \o Named("discord", ev[i].NotifyDiscordWebhook)])

FinalizeWithoutSave(t) ==
  /\ ~panicked /\ tasks[t].pc = "finalize"
  /\ tasks' = [tasks EXCEPT ![t].jr = FlushLogBuffer(@), ![t].pc = "OnEvent"]
  /\ UNCHANGED <<op, poller, sched, pending, opened, db, mutex, clock, ctxCancelled, panicked, Runs>>

\* finalize up to the call of OnEvent: flush, save, and without a store the
\* read of j.Runs by append(j.Runs, *jr).  No lock guards j.Runs, so the
\* read and the assignment of the new slice are separate steps that runs of
\* the same job interleave.
Finalize(t) ==
  /\ ~panicked /\ tasks[t].pc = "finalize"
  /\ LET r == LogToDb(db, FlushLogBuffer(tasks[t].jr))
     IN /\ db' = r.db
        /\ panicked' = r.panic
        /\ tasks' = [tasks EXCEPT ![t].jr = r.jr,
                                  ![t].runsRead = IF HasDB THEN @ ELSE Runs[tasks[t].job],
                                  ![t].pc = IF HasDB THEN "OnEvent" ELSE "append"]
  /\ UNCHANGED <<op, poller, sched, pending, opened, mutex, clock, ctxCancelled, Runs>>

\* j.Runs = append(j.Runs, *jr): the assignment of the extended slice
AppendRun(t) ==
  /\ ~panicked /\ tasks[t].pc = "append"
  /\ Runs' = [Runs EXCEPT ![tasks[t].job] = Append(tasks[t].runsRead, tasks[t].jr.Status)]
  /\ tasks' = [tasks EXCEPT ![t].runsRead = <<>>, ![t].pc = "OnEvent"]
  /\ UNCHANGED <<op, poller, sched, pending, opened, db, mutex, clock, ctxCancelled, panicked>>

OnEventFirstAttemptOnly(t) ==
  /\ ~panicked /\ tasks[t].pc = "OnEvent"
  /\ LET jr == tasks[t].jr
         jobs == IF tasks[t].tries > 0 THEN <<>>
                 ELSE JobsToTrigger(JobOf(t), jr.Status[1])
         hooks == IF tasks[t].tries > 0 THEN <<>>
                  ELSE WebhooksToCall(JobOf(t), jr.Status[1])
         gen == tasks[t].events + 1
         runs == [i \in 1..Len(jobs) |->
                    [Task("retry", jobs[i], JobTrigger(tasks[t].job), t, gen,
                          "background", "go", ZeroRun)
                       EXCEPT !.pstatus = jr.Status]]
         calls == [i \in 1..Len(hooks) |->
                     [Task("webhook", tasks[t].job, hooks[i].url, t, gen,
                           "background", "call", jr)
                        EXCEPT !.pstatus = jr.Status, !.hook = hooks[i].name]]
     IN IF jobs # <<>> /\ ~sched.hasSchedule
          THEN \* j.globalSchedule.Jobs on a nil schedule
               /\ panicked' = TRUE
               /\ UNCHANGED tasks
          ELSE /\ Len(tasks) + Len(jobs) + Len(hooks) <= MaxTasks
               /\ tasks' = [tasks EXCEPT ![t].events = gen, ![t].pc = "wg.Wait"]
                             \o runs \o calls
               /\ UNCHANGED panicked
  /\ UNCHANGED <<op, poller, sched, pending, opened, db, mutex, clock, ctxCancelled, Runs>>

\* OnEvent up to wg.Wait: one goroutine per downstream job, then one per webhook
OnEvent(t) ==
  /\ ~panicked /\ tasks[t].pc = "OnEvent"
  /\ LET jr == tasks[t].jr
         jobs == JobsToTrigger(JobOf(t), jr.Status[1])
         hooks == WebhooksToCall(JobOf(t), jr.Status[1])
         gen == tasks[t].events + 1
         runs == [i \in 1..Len(jobs) |->
                    [Task("retry", jobs[i], JobTrigger(tasks[t].job), t, gen,
                          "background", "go", ZeroRun)
                       EXCEPT !.pstatus = jr.Status]]
         calls == [i \in 1..Len(hooks) |->
                     [Task("webhook", tasks[t].job, hooks[i].url, t, gen,
                           "background", "call", jr)
                        EXCEPT !.pstatus = jr.Status, !.hook = hooks[i].name]]
     IN IF jobs # <<>> /\ ~sched.hasSchedule
          THEN \* j.globalSchedule.Jobs on a nil schedule
               /\ panicked' = TRUE
               /\ UNCHANGED tasks
          ELSE /\ Len(tasks) + Len(jobs) + Len(hooks) <= MaxTasks
               /\ tasks' = [tasks EXCEPT ![t].events = gen, ![t].pc = "wg.Wait"]
                             \o runs \o calls
               /\ UNCHANGED panicked
  /\ UNCHANGED <<op, poller, sched, pending, opened, db, mutex, clock, ctxCancelled, Runs>>

FanOutDoneNoWait(t) == TRUE

\* wg.Wait returns: every goroutine of this OnEvent call has ended
FanOutDone(t) == \A c \in Children(t, tasks[t].events) : tasks[c].pc = "done"

AfterFinalizeNoBreak(t) ==
  /\ ~panicked /\ tasks[t].pc = "wg.Wait"
  /\ FanOutDone(t)
  /\ IF tasks[t].ret \/ tasks[t].kind = "RunJob"
       THEN /\ tasks' = [tasks EXCEPT ![t].pc = "done", ![t].locked = FALSE]
            /\ mutex' = Unlocked(t)
       ELSE /\ tasks' = [tasks EXCEPT ![t].tries = @ + 1, ![t].pc = "backoff"]
            /\ UNCHANGED mutex
  /\ UNCHANGED <<op, poller, sched, pending, opened, db, clock, ctxCancelled, panicked, Runs>>

AfterFinalizeNoBackoff(t) ==
  /\ ~panicked /\ tasks[t].pc = "wg.Wait"
  /\ FanOutDone(t)
  /\ IF tasks[t].ret \/ tasks[t].kind = "RunJob" \/ tasks[t].jr.Status[1] = StatusOK
       THEN /\ tasks' = [tasks EXCEPT ![t].pc = "done", ![t].locked = FALSE]
            /\ mutex' = Unlocked(t)
       ELSE /\ tasks' = [tasks EXCEPT ![t].tries = @ + 1, ![t].pc = "loop"]
            /\ UNCHANGED mutex
  /\ UNCHANGED <<op, poller, sched, pending, opened, db, clock, ctxCancelled, panicked, Runs>>

\* from wg.Wait to the back-off or to the return
AfterFinalize(t) ==
  /\ ~panicked /\ tasks[t].pc = "wg.Wait"
  /\ FanOutDone(t)
  /\ IF tasks[t].ret \/ tasks[t].kind = "RunJob" \/ tasks[t].jr.Status[1] = StatusOK
       THEN /\ tasks' = [tasks EXCEPT ![t].pc = "done", ![t].locked = FALSE]
            /\ mutex' = Unlocked(t)
       ELSE /\ tasks' = [tasks EXCEPT ![t].tries = @ + 1, ![t].pc = "backoff"]
            /\ UNCHANGED mutex
  /\ UNCHANGED <<op, poller, sched, pending, opened, db, clock, ctxCancelled, panicked, Runs>>

\* case <-time.After(timeOut)
BackoffElapsed(t) ==
  /\ ~panicked /\ tasks[t].pc = "backoff"
  /\ tasks' = [tasks EXCEPT ![t].pc = "loop", ![t].fired = @ + 1]
  /\ UNCHANGED <<op, poller, sched, pending, opened, db, mutex, clock, ctxCancelled, panicked, Runs>>

\* case <-ctx.Done()
BackoffCancelled(t) ==
  /\ ~panicked /\ tasks[t].pc = "backoff" /\ CtxErr(t)
  /\ tasks' = [tasks EXCEPT ![t].jr = [@ EXCEPT !.Log = Append(@, RetryCancelledNotice),
                                                 !.Status = Some(StatusError)],
                            ![t].cancelled = TRUE,
                            ![t].pc = "done", ![t].locked = FALSE]
  /\ mutex' = Unlocked(t)
  /\ UNCHANGED <<op, poller, sched, pending, opened, db, clock, ctxCancelled, panicked, Runs>>

\* the goroutine of a webhook: wu.Call(jr) returns a response or an error
WebhookCall(t) ==
  /\ ~panicked /\ tasks[t].pc = "call"
  /\ tasks' = [tasks EXCEPT ![t].pc = "done"]
  /\ UNCHANGED <<op, poller, sched, pending, opened, db, mutex, clock, ctxCancelled, panicked, Runs>>

(***************************************************************************)
(* The specification of the run lifecycle.                                 *)
(***************************************************************************)
Init ==
  /\ \E sc \in Scenarios : sched = sc.schedule /\ pending = sc.calls
  /\ db = IF sched.store = "legacy" THEN LegacyDB ELSE EmptyDB
  /\ opened = FALSE
  /\ tasks = <<>>
  /\ mutex = [j \in DOMAIN sched.Jobs |-> FALSE]
  /\ clock = 0
  /\ ctxCancelled = FALSE
  /\ panicked = FALSE
  /\ Runs = [j \in DOMAIN sched.Jobs |-> <<>>]
  /\ op = NoOp
  /\ poller = NoPoller

Next ==
  \/ Open
  \/ \E j \in JobNames : Trigger(j)
  \/ \E j \in JobNames : RunJob(j)
  \/ Tick
  \/ Cancel
  \/ \E t \in TaskIds : Go(t)
  \/ \E t \in TaskIds : Setup(t)
  \/ \E t \in TaskIds : CancelledBeforeAttempt(t)
  \/ \E t \in TaskIds : LoopExit(t)
  \/ \E t \in TaskIds : ExecStart(t)
  \/ \E t \in TaskIds : ExecWait(t)
  \/ \E t \in TaskIds : Finalize(t)
  \/ \E t \in TaskIds : AppendRun(t)
  \/ \E t \in TaskIds : OnEvent(t)
  \/ \E t \in TaskIds : AfterFinalize(t)
  \/ \E t \in TaskIds : BackoffElapsed(t)
  \/ \E t \in TaskIds : BackoffCancelled(t)
  \/ \E t \in TaskIds : WebhookCall(t)

Spec == Init /\ [][Next]_vars

(***************************************************************************)
(* The store on its own: InitDB and InsertOrUpdateJobRun called with       *)
(* arbitrary runs on a fresh database file or on a log table that predates *)
(* the UNIQUE constraint.                                                  *)
(***************************************************************************)
StoreSchedule ==
  Schedule(TRUE, "db", NoHooks, NoHooks,
           "A" :> Job(CmdTrue, 0, FALSE, NoHooks, NoHooks)
           @@ "B" :> Job(CmdTrue, 0, FALSE, NoHooks, NoHooks))

\* what a run carries when it is saved: running, succeeded, failed
RunContents ==
  { [Status |-> Nil, Duration |-> 0, Log |-> <<>>],
    [Status |-> Some(StatusOK), Duration |-> 1, Log |-> <<ChildOutput>>],
    [Status |-> Some(2), Duration |-> 1, Log |-> <<ChildOutput, ExitCodeNotice(2)>>] }

StoreJobRuns ==
  { [ZeroRun EXCEPT !.Name = n, !.TriggeredAt = at, !.TriggeredBy = "manual",
                    !.Status = c.Status, !.Duration = c.Duration, !.Log = c.Log] :
      n \in {"A", "B"}, at \in 0..MaxClock, c \in RunContents }

\* log tables created before the UNIQUE constraint existed, with any rows
LegacyDBs ==
  LET Absent == [at |-> 0 - 1, status |-> Nil]
      Cells == {Absent} \cup [at : 0..MaxClock, status : {Some(StatusOK), Some(2)}]
  IN { [LegacyDB EXCEPT
          !.log = {LegacyRow(i, f[i].at, f[i].status) : i \in {k \in 1..MaxRows : f[k] # Absent}},
          !.seq = MaxRows] : f \in [1..MaxRows -> Cells] }

StoreStart(d, p) ==
  /\ sched = StoreSchedule
  /\ pending = <<>>
  /\ db = d
  /\ opened = FALSE
  /\ tasks = <<>>
  /\ mutex = [j \in DOMAIN sched.Jobs |-> FALSE]
  /\ clock = 0
  /\ ctxCancelled = FALSE
  /\ panicked = FALSE
  /\ Runs = [j \in DOMAIN sched.Jobs |-> <<>>]
  /\ op = NoOp
  /\ poller = p

StoreInit == \E d \in {EmptyDB} \cup LegacyDBs : StoreStart(d, NoPoller)

\* InitDB(db)
StoreOpen ==
  /\ db' = InitDB(db)
  /\ opened' = TRUE
  /\ op' = [name |-> "init", before |-> db]
  /\ UNCHANGED <<poller, sched, pending, tasks, mutex, clock, ctxCancelled, panicked, Runs>>

\* InsertOrUpdateJobRun(db, &jr)
StoreUpsert(jr) ==
  /\ db.seq < MaxRows \/ \E r \in db.log : RowKey(r) = RunKey(jr)
  /\ LET r == InsertOrUpdateJobRun(db, jr)
     IN /\ db' = r.db
        /\ op' = [name |-> "upsert", before |-> db, jr |-> jr, out |-> r.jr,
                  err |-> r.err]
  /\ UNCHANGED <<poller, sched, pending, opened, tasks, mutex, clock, ctxCancelled,
                 panicked, Runs>>

\* the arguments of the load functions: the jobs of the store and a job
\* without rows; the ids a row can have, an id no row has, and -1
LoadNames == {"A", "B", "C"}

LoadIds == {0 - 1} \cup 1..(MaxRows + 1)

LoadLimits == {0 - 1} \cup 0..MaxRows

\* LoadJobRun(db, name, id)
StoreLoadRun(name, id) ==
  /\ \E r \in LoadJobRun(db, name, id) :
       op' = [name |-> "load_run", job |-> name, id |-> id, jr |-> r.jr, err |-> r.err]
  /\ UNCHANGED <<poller, sched, pending, db, opened, tasks, mutex, clock, ctxCancelled,
                 panicked, Runs>>

\* LoadJobRuns(db, name, nruns, includeLogs)
StoreLoadRuns(name, nruns, includeLogs) ==
  /\ \E r \in LoadJobRuns(db, name, nruns, includeLogs) :
       op' = [name |-> "load_runs", job |-> name, nruns |-> nruns,
              includeLogs |-> includeLogs, runs |-> r.runs, err |-> r.err]
  /\ UNCHANGED <<poller, sched, pending, db, opened, tasks, mutex, clock, ctxCancelled,
                 panicked, Runs>>

StoreNext ==
  \/ StoreOpen
  \/ \E jr \in StoreJobRuns : StoreUpsert(jr)
  \/ \E name \in LoadNames, id \in LoadIds : StoreLoadRun(name, id)
  \/ \E name \in LoadNames, n \in LoadLimits, logs \in BOOLEAN :
       StoreLoadRuns(name, n, logs)

SpecStore == StoreInit /\ [][StoreNext]_vars

(***************************************************************************)
(* The log_lines table on its own: InsertLogLine and GetLogLines called    *)
(* with arbitrary arguments, and a client that tails the lines of one run  *)
(* with a cursor.                                                          *)
(***************************************************************************)
RunIds == {1, 2}

LineTexts ==
  { [content |-> "a", stream |-> "stdout"], [content |-> "b", stream |-> "stderr"] }

\* the stores the line operations start from: a database file without
\* tables, and an initialised store that holds the row of one run (id 1)
LinesDBs ==
  { EmptyDB,
    InsertOrUpdateJobRun(InitDB(EmptyDB),
                         [ZeroRun EXCEPT !.Name = "A", !.TriggeredBy = "manual"]).db }

LinesInit ==
  \E id \in RunIds, d \in LinesDBs : StoreStart(d, [NoPoller EXCEPT !.id = id])

\* InsertLogLine(db, id, n, content, stream)
LinesInsert(id, n, text) ==
  /\ db.lineSeq < MaxLineRows \/ \E l \in db.log_lines : LineKey(l) = <<id, n>>
  /\ LET r == InsertLogLine(db, id, n, text.content, text.stream, Now)
     IN /\ db' = r.db
        /\ op' = [name |-> "insert_line", before |-> db, id |-> id, n |-> n,
                  text |-> text, err |-> r.err]
  /\ UNCHANGED <<poller, sched, pending, opened, tasks, mutex, clock, ctxCancelled,
                 panicked, Runs>>

\* GetLogLines(db, id, c)
LinesGet(id, c) ==
  /\ LET r == GetLogLines(db, id, c)
     IN op' = [name |-> "get_lines", id |-> id, c |-> c, lines |-> r.lines,
               err |-> r.err]
  /\ UNCHANGED <<poller, sched, pending, db, opened, tasks, mutex, clock, ctxCancelled,
                 panicked, Runs>>

\* the cursor after a poll: the last line_number received
Advance(cursor, lines) ==
  IF lines = <<>> THEN cursor ELSE lines[Len(lines)].line_number

\* one poll of the tailing client: GetLogLines(db, id, cursor)
Poll ==
  /\ LET r == GetLogLines(db, poller.id, poller.cursor)
     IN /\ ~r.err /\ r.lines # <<>>
        /\ poller' = [poller EXCEPT !.cursor = Advance(@, r.lines),
                                    !.received = @ \o r.lines]
  /\ UNCHANGED <<op, sched, pending, db, opened, tasks, mutex, clock, ctxCancelled,
                 panicked, Runs>>

LinesNext ==
  \/ StoreOpen
  \/ \E id \in RunIds, n \in 1..MaxLine, text \in LineTexts : LinesInsert(id, n, text)
  \/ \E id \in RunIds \cup {0}, c \in 0..MaxLine : LinesGet(id, c)
  \/ Poll

SpecLines == LinesInit /\ [][LinesNext]_vars


(***************************************************************************)
(* Vocabulary of the properties.                                           *)
(***************************************************************************)
IsRun(t) == tasks[t].kind # "webhook"

\* setup has been performed: the task owns a JobRun
Started(t) == IsRun(t) /\ tasks[t].pc \notin {"go", "setup"}

\* the store is configured and its writes succeed
StoreHealthy == sched.store = "db"

KeyOf(t) == RunKey(tasks[t].jr)

RowsOf(t) == {r \in db.log : RowKey(r) = KeyOf(t)}

\* no other run has the key of t, so that only t writes t's row
Exclusive(t) ==
  \A u \in TaskIds \ {t} : Started(u) => KeyOf(u) # KeyOf(t)

\* an attempt of t is running or still to come
Executing(t) ==
  /\ Started(t)
  /\ \/ tasks[t].pc \in {"wait", "finalize"}
     \/ tasks[t].pc \in {"loop", "backoff"}
        /\ (tasks[t].kind = "RunJob" \/ tasks[t].tries < JobOf(t).Retries + 1)

AllFailed(t) == \A i \in DOMAIN tasks[t].execs : tasks[t].execs[i] # StatusOK

Occurrences(x, seq) == Cardinality({i \in DOMAIN seq : seq[i] = x})

RECURSIVE IsAncestor(_, _)
IsAncestor(a, c) ==
  /\ tasks[c].parent # 0
  /\ (tasks[c].parent = a \/ IsAncestor(a, tasks[c].parent))

(***************************************************************************)
(* C1: a call of exec_with_retry on a job with retries = R whose every     *)
(* attempt fails and whose context is never cancelled has invoked the      *)
(* executor exactly R+1 times when it returns, and the row it persisted    *)
(* (healthy store, no other run on the same key) carries the non-zero      *)
(* status of the last attempt.                                             *)
(***************************************************************************)
C1_RetryBudget ==
  \A t \in TaskIds :
    (tasks[t].kind = "retry" /\ tasks[t].pc = "done" /\ ~CtxErr(t) /\ AllFailed(t))
    => /\ Len(tasks[t].execs) = JobOf(t).Retries + 1
       /\ (StoreHealthy /\ Exclusive(t)) =>
            /\ RowsOf(t) # {}
            /\ \A r \in RowsOf(t) :
                 /\ r.status = Some(tasks[t].execs[Len(tasks[t].execs)])
                 /\ r.status # Some(StatusOK)

C1_Witness ==
  \E t \in TaskIds :
    /\ tasks[t].kind = "retry" /\ tasks[t].pc = "done" /\ ~CtxErr(t) /\ AllFailed(t)
    /\ JobOf(t).Retries >= 1 /\ Len(tasks[t].execs) = JobOf(t).Retries + 1
    /\ StoreHealthy /\ Exclusive(t)
    /\ \E r \in RowsOf(t) : r.status = Some(2)

(***************************************************************************)
(* C2: once attempt 0 of a call has failed and attempt 1 has run and been  *)
(* finalized, the store holds two rows of the job with the call's          *)
(* triggered_at, one with triggered_by = <trigger> and one with            *)
(* triggered_by = <trigger>[retry=1].                                      *)
(***************************************************************************)
C2_RetryHasOwnRow ==
  \A t \in TaskIds :
    (tasks[t].kind = "retry" /\ StoreHealthy /\ Len(tasks[t].execs) >= 2
      /\ tasks[t].pc \in {"OnEvent", "wg.Wait", "backoff", "loop", "done"})
    => \E r0, r1 \in db.log :
         /\ r0.job = tasks[t].job /\ r1.job = tasks[t].job
         /\ r0.triggered_at = tasks[t].jr.TriggeredAt
         /\ r1.triggered_at = tasks[t].jr.TriggeredAt
         /\ r0.triggered_by = tasks[t].trigger
         /\ r1.triggered_by = RetryTrigger(tasks[t].trigger, 1)

(***************************************************************************)
(* C3: once the store is open (InitDB has run), no two rows of the log     *)
(* table share (job, triggered_at, triggered_by), whatever the table held  *)
(* before and however the runs interleave.                                 *)
(***************************************************************************)
C3_UniqueRunKey ==
  opened => \A r1, r2 \in db.log : RowKey(r1) = RowKey(r2) => r1.id = r2.id

C3_Witness ==
  /\ opened
  /\ \E t, u \in TaskIds :
       /\ t # u /\ Started(t) /\ Started(u) /\ KeyOf(t) = KeyOf(u)
       /\ Cardinality(RowsOf(t)) = 1

(***************************************************************************)
(* C4: when a call of exec_with_retry returns, the row its setup inserted  *)
(* has a non-null status and is_running = 0 (healthy store, no other run   *)
(* on the same key), on every return path.                                 *)
(***************************************************************************)
C4_TerminalStatus ==
  \A t \in TaskIds :
    (tasks[t].kind = "retry" /\ tasks[t].pc = "done" /\ StoreHealthy /\ Exclusive(t))
    => /\ RowsOf(t) # {}
       /\ \A r \in RowsOf(t) : r.status # Nil /\ r.is_running = 0

\* the return from the back-off, which does not finalize
C4_Witness ==
  \E t \in TaskIds :
    /\ tasks[t].kind = "retry" /\ tasks[t].pc = "done" /\ StoreHealthy /\ Exclusive(t)
    /\ tasks[t].jr.Log # <<>>
    /\ tasks[t].jr.Log[Len(tasks[t].jr.Log)] = RetryCancelledNotice
    /\ \E r \in RowsOf(t) : r.status # Nil /\ r.is_running = 0

(***************************************************************************)
(* C5: when the executor returns, the run's status is non-null; it is 0    *)
(* exactly when cmd.Wait reported a clean exit, the child's exit code when *)
(* the child exited with a non-zero code and the context is not cancelled, *)
(* and -1 for an empty command, a start failure, a child that failed under *)
(* a cancelled context and any other wait error.                           *)
(***************************************************************************)
C5_ExecutorStatus ==
  \A t \in TaskIds :
    (IsRun(t) /\ tasks[t].pc = "finalize" /\ ~tasks[t].ret)
    => LET st == tasks[t].jr.Status
           last == tasks[t].last
       IN /\ st # Nil
          /\ (st = Some(StatusOK)) <=> (last.path = "nil")
          /\ last.path = "exit" => st = Some(last.code) /\ last.code # 0
          /\ last.path \in {"nocommand", "startfail", "killed", "other"}
               => st = Some(StatusError)
          /\ last.path \in {"nil", "exit", "nocommand", "startfail", "killed", "other"}

C5_Witness ==
  \E t \in TaskIds :
    /\ IsRun(t) /\ tasks[t].pc = "finalize" /\ ~tasks[t].ret
    /\ tasks[t].last.path = "killed" /\ tasks[t].last.code = 2
    /\ tasks[t].jr.Status = Some(StatusError)

(***************************************************************************)
(* C6: the row of a run has status null and is_running = 1 if and only if  *)
(* the run is still executing (an attempt is running or still to come),    *)
(* also while the child of a retry attempt runs and during the back-off.   *)
(***************************************************************************)
C6_RunningIffExecuting ==
  \A t \in TaskIds :
    (Started(t) /\ StoreHealthy /\ Exclusive(t))
    => ((\E r \in RowsOf(t) : r.status = Nil /\ r.is_running = 1) <=> Executing(t))

(***************************************************************************)
(* C7: for a job with disable_concurrent_execution, at most one run is     *)
(* executing at any instant.                                               *)
(***************************************************************************)
C7_SerialGate ==
  \A j \in JobNames :
    sched.Jobs[j].DisableConcurrentExecution
    => Cardinality({t \in TaskIds : tasks[t].job = j /\ Executing(t)}) <= 1

(***************************************************************************)
(* C8 as claimed: when a run of A has succeeded and its fan-out has been   *)
(* dispatched and has ended, exactly one run of B with triggered_by        *)
(* job[A] was created by it, for every job B its success hooks name.       *)
(***************************************************************************)
RunsCreated(t, b) ==
  {c \in Children(t, tasks[t].events) :
     /\ tasks[c].kind = "retry" /\ tasks[c].job = b /\ Started(c)
     /\ tasks[c].jr.TriggeredBy = JobTrigger(tasks[t].job)}

Succeeded(t) ==
  /\ IsRun(t) /\ tasks[t].pc = "done" /\ tasks[t].events > 0
  /\ tasks[t].jr.Status = Some(StatusOK)

SuccessTargets(t) ==
  LET own == JobOf(t).OnSuccess.TriggerJob
      all == IF sched.hasSchedule THEN own \o sched.OnSuccess.TriggerJob ELSE own
  IN all

C8_ExactlyOneRun ==
  \A t \in TaskIds :
    Succeeded(t) =>
      \A b \in JobNames :
        Occurrences(b, SuccessTargets(t)) > 0 => Cardinality(RunsCreated(t, b)) = 1

(***************************************************************************)
(* C8 amended: a successful run of A creates one run of B with             *)
(* triggered_by job[A] for every entry of A's on_success.trigger_job and   *)
(* of the schedule-wide on_success.trigger_job that names B: one when B is *)
(* named once, two when both name it.                                      *)
(***************************************************************************)
C8_OneRunPerEntry ==
  \A t \in TaskIds :
    Succeeded(t) =>
      \A b \in JobNames :
        Cardinality(RunsCreated(t, b)) = Occurrences(b, SuccessTargets(t))

C8_Witness ==
  \E t \in TaskIds :
    /\ Succeeded(t)
    /\ Occurrences("B", JobOf(t).OnSuccess.TriggerJob) = 1
    /\ Occurrences("B", sched.OnSuccess.TriggerJob) = 1
    /\ Cardinality(RunsCreated(t, "B")) = 2

(***************************************************************************)
(* C9: while a fan-out task of a run exists and has not ended, the row of  *)
(* the run carries the terminal status the task was dispatched with, and   *)
(* is_running = 0: finalize saved the run before OnEvent started the task  *)
(* (healthy store, no other run on the parent's key).                      *)
(***************************************************************************)
C9_FanOutAfterSave ==
  \A c \in TaskIds :
    (tasks[c].parent # 0 /\ tasks[c].pc # "done" /\ StoreHealthy
      /\ Exclusive(tasks[c].parent))
    => /\ RowsOf(tasks[c].parent) # {}
       /\ \A r \in RowsOf(tasks[c].parent) :
            /\ r.status # Nil /\ r.is_running = 0
            /\ r.status = tasks[c].pstatus

C9_Witness ==
  \E c, w \in TaskIds :
    /\ tasks[c].parent # 0 /\ tasks[c].kind = "retry" /\ tasks[c].pc = "wait"
    /\ tasks[w].parent = tasks[c].parent /\ tasks[w].kind = "webhook"
    /\ tasks[w].pc = "call"
    /\ StoreHealthy /\ Exclusive(tasks[c].parent)
    /\ \E r \in RowsOf(tasks[c].parent) : r.status = Some(StatusOK)

(***************************************************************************)
(* C10: a call of exec_with_retry that has returned has no fan-out task    *)
(* still running, neither one it spawned nor one spawned by a downstream   *)
(* run.                                                                    *)
(***************************************************************************)
C10_ReturnAfterFanOut ==
  \A a, c \in TaskIds :
    (IsAncestor(a, c) /\ tasks[a].pc = "done") => tasks[c].pc = "done"

C10_Witness ==
  \E a, c \in TaskIds :
    /\ IsAncestor(a, c) /\ tasks[c].parent # a
    /\ tasks[c].kind = "webhook"
    /\ tasks[a].pc = "done" /\ tasks[c].pc = "done"
    /\ Len(tasks[a].execs) >= 2

(***************************************************************************)
(* C11: with a healthy store, a fan-out that names a job missing from the  *)
(* schedule's job map, or the fan-out of a job without owning schedule,    *)
(* does not crash the program: the name is skipped.                        *)
(***************************************************************************)
C11_MissingJobSkipped ==
  ~ /\ panicked /\ StoreHealthy
    /\ \/ \E t \in TaskIds : tasks[t].pc = "go" /\ tasks[t].job \notin JobNames
       \/ \E t \in TaskIds :
            /\ tasks[t].pc = "OnEvent" /\ ~sched.hasSchedule
            /\ JobsToTrigger(JobOf(t), tasks[t].jr.Status[1]) # <<>>

(***************************************************************************)
(* C12: once the context handed to exec_with_retry is cancelled, no setup  *)
(* is performed any more, neither by a call that received the context nor  *)
(* by a downstream run dispatched by a run that saw the cancellation       *)
(* before it finalized.                                                    *)
(***************************************************************************)
AfterCancellation(t) ==
  /\ ctxCancelled /\ IsRun(t) /\ tasks[t].pc = "setup"
  /\ IF tasks[t].parent = 0
       THEN tasks[t].ctx = "root"
       ELSE tasks[tasks[t].parent].ctx = "root" /\ tasks[tasks[t].parent].cancelled

C12_NoNewRunAfterCancel ==
  [][\A t \in TaskIds : AfterCancellation(t) => tasks'[t].pc = "setup"]_vars

(***************************************************************************)
(* C13: a call of exec_with_retry that saw its context cancelled (before   *)
(* an attempt, while waiting on the child, or during the back-off) has,    *)
(* when it returns, a row with status -1 whose message contains a          *)
(* cancellation notice (healthy store, no other run on the same key).      *)
(***************************************************************************)
HasCancelNotice(log) ==
  \E i \in DOMAIN log : log[i] \in {CancelledNotice, RetryCancelledNotice, KilledNotice}

C13_CancelledRunRecorded ==
  \A t \in TaskIds :
    (tasks[t].kind = "retry" /\ tasks[t].pc = "done" /\ tasks[t].cancelled
      /\ StoreHealthy /\ Exclusive(t))
    => /\ RowsOf(t) # {}
       /\ \A r \in RowsOf(t) : r.status = Some(StatusError) /\ HasCancelNotice(r.message)

(***************************************************************************)
(* C14: two runs of a job without disable_concurrent_execution that are in *)
(* flight at the same time have different (name, triggered_at,             *)
(* triggered_by) keys, hence different rows.                               *)
(***************************************************************************)
InFlight(t) == Started(t) /\ tasks[t].pc # "done"

C14_OwnRowPerRun ==
  \A t, u \in TaskIds :
    (t # u /\ InFlight(t) /\ InFlight(u) /\ tasks[t].job = tasks[u].job
      /\ ~JobOf(t).DisableConcurrentExecution)
    => KeyOf(t) # KeyOf(u)

(***************************************************************************)
(* C15: once the row of a run carries a status (the completion update has  *)
(* been written), no step changes the row again (healthy store, no other   *)
(* run on the same key).                                                   *)
(***************************************************************************)
C15_ImmutableAfterCompletion ==
  [][\A t \in TaskIds :
       (StoreHealthy /\ Started(t) /\ Exclusive(t) /\ RowsOf(t) # {}
         /\ \A r \in RowsOf(t) : r.status # Nil)
       => (Exclusive(t)' => RowsOf(t)' = RowsOf(t))]_vars

(***************************************************************************)
(* C16: a call of upsert_run that returns without error leaves exactly one *)
(* row with the run's (job, triggered_at, triggered_by); the row carries   *)
(* the run's duration, status and message and is_running = 1 iff the       *)
(* status is null; it keeps its id when it existed before and gets a fresh *)
(* id otherwise; no row with another key is changed.                       *)
(***************************************************************************)
C16_UpsertRun ==
  (op.name = "upsert" /\ ~op.err) =>
    LET key == RunKey(op.jr)
        old == {r \in op.before.log : RowKey(r) = key}
        new == {r \in db.log : RowKey(r) = key}
    IN /\ Cardinality(new) = 1
       /\ \A r \in new :
            /\ r.duration = op.jr.Duration
            /\ r.status = op.jr.Status
            /\ r.message = op.jr.Log
            /\ r.is_running = (IF op.jr.Status = Nil THEN 1 ELSE 0)
            /\ \A o \in old : o.id = r.id
            /\ old = {} => \A o \in op.before.log : o.id # r.id
       /\ {r \in db.log : RowKey(r) # key} = {r \in op.before.log : RowKey(r) # key}

\* the completion update of a running row, next to the row of another run
C16_Witness ==
  /\ op.name = "upsert" /\ ~op.err
  /\ \E o \in op.before.log :
       /\ RowKey(o) = RunKey(op.jr) /\ o.status = Nil /\ o.is_running = 1
       /\ \E r \in db.log : r.id = o.id /\ r.status = Some(2) /\ r.is_running = 0
  /\ \E q \in db.log : RowKey(q) # RunKey(op.jr)

(***************************************************************************)
(* C17: init keeps, of the rows it finds, exactly those with the minimum   *)
(* id of their (job, triggered_at, triggered_by), each unchanged, and an   *)
(* init of the resulting store changes nothing.                            *)
(***************************************************************************)
C17_InitPurge ==
  op.name = "init" =>
    /\ db.log \subseteq op.before.log
    /\ \A r \in op.before.log :
         (r \in db.log) <=> (\A q \in op.before.log : RowKey(q) = RowKey(r) => r.id <= q.id)
    /\ InitDB(db) = db

\* a table with a duplicated key and a row whose key is unique
C17_Witness ==
  /\ op.name = "init"
  /\ Cardinality(op.before.log) = 3 /\ Cardinality(db.log) = 2
  /\ \E r, q \in op.before.log :
       /\ RowKey(r) = RowKey(q) /\ r.id < q.id /\ r.status # q.status
       /\ r \in db.log /\ q \notin db.log

(***************************************************************************)
(* C18: insert_log_line with a (run_id, line_number) that is already       *)
(* stored returns an error and leaves the log_lines table unchanged.       *)
(***************************************************************************)
C18_DuplicateLineRejected ==
  (op.name = "insert_line"
    /\ \E l \in op.before.log_lines : LineKey(l) = <<op.id, op.n>>)
  => op.err /\ db.log_lines = op.before.log_lines

C18_Witness ==
  /\ op.name = "insert_line" /\ op.err
  /\ \E l \in db.log_lines :
       /\ LineKey(l) = <<op.id, op.n>>
       /\ l.content # op.text.content /\ l.stream # op.text.stream

(***************************************************************************)
(* C19: on an initialised store get_log_lines(run_id, c) returns without   *)
(* error exactly the stored lines of run_id with line_number > c, each     *)
(* once and as stored, in ascending line_number order (the empty list when *)
(* there are none or the run id is unknown).                               *)
(***************************************************************************)
C19_GetLogLines ==
  (op.name = "get_lines" /\ db.hasLines) =>
    LET want == {l \in db.log_lines : l.job_run_id = op.id /\ l.line_number > op.c}
    IN /\ ~op.err
       /\ {op.lines[i] : i \in DOMAIN op.lines} = want
       /\ Len(op.lines) = Cardinality(want)
       /\ \A i, j \in DOMAIN op.lines :
            i < j => op.lines[i].line_number < op.lines[j].line_number

\* two lines after the cursor, stored in descending order, a line at the
\* cursor and a line of another run
C19_Witness ==
  /\ op.name = "get_lines" /\ db.hasLines /\ op.c = 1
  /\ Len(op.lines) = 2 /\ op.lines[1].id > op.lines[2].id
  /\ op.lines[1].stream # op.lines[2].stream

(***************************************************************************)
(* C20: in every store state, for every run id and cursor n, the lines of  *)
(* get_log_lines(id, 0) up to line_number n followed by                    *)
(* get_log_lines(id, n) are get_log_lines(id, 0), and no line occurs twice *)
(* in it; a client that polls with the last line_number it received as its *)
(* cursor, while lines are inserted, receives no line twice.               *)
(***************************************************************************)
NoLineTwice(lines) ==
  \A i, j \in DOMAIN lines : i # j => lines[i].id # lines[j].id

C20_TailingIdempotent ==
  db.hasLines =>
    /\ \A id \in RunIds \cup {0}, n \in 0..MaxLine :
         LET all == GetLogLines(db, id, 0).lines
             UpTo(l) == l.line_number <= n
         IN /\ SelectSeq(all, UpTo) \o GetLogLines(db, id, n).lines = all
            /\ NoLineTwice(all)
    /\ NoLineTwice(poller.received)

\* two polls with insertions in between: a line below the cursor arrived
\* after the client had passed it
C20_Witness ==
  /\ Len(poller.received) >= 2 /\ NoLineTwice(poller.received)
  /\ \E l \in db.log_lines :
       /\ l.job_run_id = poller.id /\ l.line_number < poller.cursor
       /\ \A i \in DOMAIN poller.received : poller.received[i].id # l.id

(***************************************************************************)
(* C21: in every store state the line numbers stored for one run are       *)
(* 1..N for some N >= 0: they start at 1 and have no gaps and no repeats.  *)
(***************************************************************************)
LineNumbers(id) == {l.line_number : l \in {k \in db.log_lines : k.job_run_id = id}}

C21_DenseLineNumbers ==
  \A id \in RunIds :
    /\ LineNumbers(id) = 1..Cardinality(LineNumbers(id))
    /\ Cardinality({l \in db.log_lines : l.job_run_id = id}) = Cardinality(LineNumbers(id))

(***************************************************************************)
(* C22: in every store state each row of log_lines has a row of log whose  *)
(* id is its job_run_id.                                                   *)
(***************************************************************************)
C22_LinesHaveParent ==
  \A l \in db.log_lines : \E r \in db.log : r.id = l.job_run_id

(***************************************************************************)
(* C23: on a store with a log table, load_run(name, -1) returns without    *)
(* error a run of job name with the greatest triggered_at, and             *)
(* load_run(name, id) with id # -1 the run whose id is id, each with the   *)
(* stored trigger, duration, status and message; when there is no such row *)
(* the call returns an error and the zero run.                             *)
(***************************************************************************)
Loaded(jr, r, withMessage) ==
  /\ jr.LogEntryId = r.id /\ jr.TriggeredAt = r.triggered_at
  /\ jr.TriggeredBy = r.triggered_by /\ jr.Duration = r.duration
  /\ jr.Status = r.status
  /\ jr.Log = (IF withMessage THEN r.message ELSE <<>>)

C23_LoadRun ==
  (op.name = "load_run" /\ db.hasTable) =>
    LET rows == IF op.id = 0 - 1 THEN {r \in db.log : r.job = op.job}
                ELSE {r \in db.log : r.id = op.id}
    IN IF rows = {}
         THEN op.err /\ op.jr = ZeroRun
         ELSE /\ ~op.err
              /\ \E r \in rows :
                   /\ Loaded(op.jr, r, TRUE)
                   /\ \A q \in rows : q.triggered_at <= r.triggered_at

\* the latest run of a job is not the row with the greatest id, and the
\* store holds a run of another job
C23_Witness ==
  /\ op.name = "load_run" /\ op.id = 0 - 1 /\ ~op.err
  /\ \E r, q \in db.log :
       /\ r.job = op.job /\ q.job = op.job
       /\ r.id = op.jr.LogEntryId /\ q.id > r.id /\ q.triggered_at < r.triggered_at
  /\ \E x \in db.log : x.job # op.job

(***************************************************************************)
(* C24 as claimed: load_runs(name, limit, include_logs) returns at most    *)
(* limit runs, all of job name, the most recent ones, newest first, with   *)
(* the stored message when include_logs and an empty log otherwise, and an *)
(* empty result without error for a job without rows.                      *)
(***************************************************************************)
LoadedRuns(count) ==
  LET rows == {r \in db.log : r.job = op.job}
  IN /\ ~op.err
     /\ Len(op.runs) = count
     /\ \A i \in DOMAIN op.runs :
          \E r \in rows :
            /\ Loaded(op.runs[i], r, op.includeLogs)
            /\ \A q \in rows :
                 (\A k \in DOMAIN op.runs : op.runs[k].LogEntryId # q.id)
                 => q.triggered_at <= r.triggered_at
     /\ \A i, j \in DOMAIN op.runs :
          i < j => /\ op.runs[i].LogEntryId # op.runs[j].LogEntryId
                   /\ op.runs[i].TriggeredAt >= op.runs[j].TriggeredAt

C24_LoadRuns ==
  (op.name = "load_runs" /\ db.hasTable) =>
    /\ LoadedRuns(Len(op.runs))
    /\ Len(op.runs) <= op.nruns

(***************************************************************************)
(* C24 amended: for limit >= 0 load_runs returns the min(limit, number of  *)
(* runs of the job) most recent runs of job name, newest first, with the   *)
(* stored message when include_logs and an empty log otherwise; for a      *)
(* negative limit it returns all runs of the job in that order; a job      *)
(* without rows yields an empty result without error.                      *)
(***************************************************************************)
C24_LoadRunsLimit ==
  (op.name = "load_runs" /\ db.hasTable) =>
    LET n == Cardinality({r \in db.log : r.job = op.job})
    IN LoadedRuns(IF op.nruns < 0 \/ op.nruns > n THEN n ELSE op.nruns)

\* a limit that cuts the older run of a job, next to a run of another job
C24_Witness ==
  /\ op.name = "load_runs" /\ op.nruns = 1 /\ ~op.includeLogs /\ Len(op.runs) = 1
  /\ \E r, q \in db.log :
       /\ r.job = op.job /\ q.job = op.job
       /\ r.id = op.runs[1].LogEntryId /\ r.message # <<>> /\ op.runs[1].Log = <<>>
       /\ q.id > r.id /\ q.triggered_at < r.triggered_at
  /\ \E x \in db.log : x.job # op.job

(***************************************************************************)
(* C25: when the writes of the store fail, or no store is configured, no   *)
(* run panics, with or without an owning schedule, and a call whose every  *)
(* attempt fails without cancellation still makes retries + 1 attempts.    *)
(***************************************************************************)
C25_StoreErrorHarmless ==
  sched.store \in {"legacy", "none"} =>
    /\ ~panicked
    /\ \A t \in TaskIds :
         (tasks[t].kind = "retry" /\ tasks[t].pc = "done" /\ ~CtxErr(t) /\ AllFailed(t))
         => Len(tasks[t].execs) = JobOf(t).Retries + 1

(***************************************************************************)
(* C26: when a call on a job with retries = 0 returns, its context not     *)
(* cancelled and its child having exited with code n # 0, the returned run *)
(* and the row (healthy store, no other run on the key) have status n and  *)
(* a log that holds the child's output and the notice "Exit code: n".      *)
(***************************************************************************)
Holds(log, text) == \E i \in DOMAIN log : log[i] = text

C26_ExitCodeRecorded ==
  \A t \in TaskIds :
    (tasks[t].kind = "retry" /\ tasks[t].pc = "done" /\ JobOf(t).Retries = 0
      /\ ~CtxErr(t) /\ tasks[t].last.path = "exit" /\ StoreHealthy /\ Exclusive(t))
    => LET n == tasks[t].last.code
       IN /\ n # 0
          /\ tasks[t].jr.Status = Some(n)
          /\ Holds(tasks[t].jr.Log, ChildOutput)
          /\ Holds(tasks[t].jr.Log, ExitCodeNotice(n))
          /\ RowsOf(t) # {}
          /\ \A r \in RowsOf(t) :
               /\ r.status = Some(n)
               /\ Holds(r.message, ChildOutput)
               /\ Holds(r.message, ExitCodeNotice(n))

(***************************************************************************)
(* C27: in a call of exec_with_retry an attempt that ends with status 0 is *)
(* the last one: no back-off and no further attempt follows it, and the    *)
(* call returns a run with status 0, whatever the retries value.           *)
(***************************************************************************)
C27_SuccessEndsRetries ==
  \A t \in TaskIds :
    tasks[t].kind = "retry" =>
      \A i \in DOMAIN tasks[t].execs :
        tasks[t].execs[i] = StatusOK =>
          /\ i = Len(tasks[t].execs)
          /\ tasks[t].pc \in {"finalize", "append", "OnEvent", "wg.Wait", "done"}
          /\ tasks[t].pc = "done" => tasks[t].jr.Status = Some(StatusOK)

\* a first attempt that succeeds with retry budget left
C27_Witness ==
  \E t \in TaskIds :
    /\ tasks[t].kind = "retry" /\ tasks[t].pc = "done"
    /\ JobOf(t).Retries >= 1 /\ tasks[t].execs = <<StatusOK>>
    /\ tasks[t].jr.Status = Some(StatusOK)

(***************************************************************************)
(* C28: while the context of a call of exec_with_retry is cancelled, the   *)
(* call starts no executor attempt: only an attempt that is already        *)
(* waiting on its child can still end.                                     *)
(***************************************************************************)
C28_NoAttemptAfterCancel ==
  [][\A t \in TaskIds :
       (tasks[t].kind = "retry" /\ CtxErr(t) /\ tasks[t].pc # "wait")
       => /\ tasks'[t].pc # "wait"
          /\ tasks'[t].execs = tasks[t].execs
          /\ tasks'[t].execTrigger = tasks[t].execTrigger]_vars

\* a call that was cancelled during the back-off with retry budget left
C28_Witness ==
  \E t \in TaskIds :
    /\ tasks[t].kind = "retry" /\ tasks[t].pc = "done" /\ CtxErr(t)
    /\ JobOf(t).Retries >= 1 /\ Len(tasks[t].execs) = 1
    /\ tasks[t].execs[1] = 2
    /\ tasks[t].jr.Log # <<>>
    /\ tasks[t].jr.Log[Len(tasks[t].jr.Log)] = RetryCancelledNotice

(***************************************************************************)
(* C29: when a call on a job with an empty command returns (context not    *)
(* cancelled), no child was spawned, and the returned run and the row      *)
(* (healthy store, no other run on the key) have status -1 and a log that  *)
(* holds the error text.                                                   *)
(***************************************************************************)
C29_EmptyCommandRecorded ==
  \A t \in TaskIds :
    (tasks[t].kind = "retry" /\ tasks[t].pc = "done" /\ JobOf(t).Command = <<>>
      /\ ~CtxErr(t) /\ StoreHealthy /\ Exclusive(t))
    => /\ tasks[t].last.path = "nocommand"
       /\ tasks[t].jr.Status = Some(StatusError)
       /\ Holds(tasks[t].jr.Log, NoCommandNotice)
       /\ RowsOf(t) # {}
       /\ \A r \in RowsOf(t) :
            r.status = Some(StatusError) /\ Holds(r.message, NoCommandNotice)

(***************************************************************************)
(* C30: the fan-out a finalized run has just dispatched consists of one    *)
(* downstream run per entry of trigger_job and one webhook call per url of *)
(* the job's and the schedule's on_success hooks when the status is 0, of  *)
(* the job's and the schedule's on_error hooks otherwise, and of nothing   *)
(* else.                                                                   *)
(***************************************************************************)
MatchingHooks(t) ==
  IF tasks[t].jr.Status = Some(StatusOK)
    THEN <<JobOf(t).OnSuccess>> \o (IF sched.hasSchedule THEN <<sched.OnSuccess>> ELSE <<>>)
    ELSE <<JobOf(t).OnError>> \o (IF sched.hasSchedule THEN <<sched.OnError>> ELSE <<>>)

\* the number of entries equal to x in the field of the matching hooks
Entries(t, field, x) ==
  LET hs == MatchingHooks(t)
      count(i) == Occurrences(x, hs[i][field])
  IN IF Len(hs) = 1 THEN count(1) ELSE count(1) + count(2)

HookKinds ==
  [generic |-> "NotifyWebhook", slack |-> "NotifySlackWebhook",
   discord |-> "NotifyDiscordWebhook"]

C30_MatchingEventOnly ==
  \A t \in TaskIds :
    (IsRun(t) /\ tasks[t].pc = "wg.Wait") =>
      LET cs == Children(t, tasks[t].events)
      IN /\ \A b \in {"A", "B", "X"} :
              Cardinality({c \in cs : tasks[c].kind = "retry" /\ tasks[c].job = b})
                = Entries(t, "TriggerJob", b)
         /\ \A k \in DOMAIN HookKinds, u \in {"s", "w", "d"} :
              Cardinality({c \in cs : /\ tasks[c].kind = "webhook"
                                      /\ tasks[c].hook = k /\ tasks[c].trigger = u})
                = Entries(t, HookKinds[k], u)
         /\ \A c \in cs :
              /\ tasks[c].kind = "retry" => tasks[c].job \in {"A", "B", "X"}
              /\ tasks[c].kind = "webhook" => tasks[c].trigger \in {"s", "w", "d"}

\* a failed run of a job whose on_success names a webhook and whose
\* on_error names only a job
C30_Witness ==
  \E t \in TaskIds :
    /\ IsRun(t) /\ tasks[t].pc = "wg.Wait" /\ tasks[t].jr.Status = Some(2)
    /\ JobOf(t).OnSuccess.NotifySlackWebhook # <<>>
    /\ JobOf(t).OnError.TriggerJob = <<"B">>
    /\ Cardinality(Children(t, tasks[t].events)) = 1
    /\ \A c \in Children(t, tasks[t].events) : tasks[c].kind = "retry" /\ tasks[c].job = "B"

(***************************************************************************)
(* C31: a call of exec_with_retry whose context is not cancelled           *)
(* dispatches the fan-out once per attempt, after the attempt's finalize:  *)
(* the n-th dispatch consists of the hooks of the event of the n-th        *)
(* attempt's status, so a call that has failed R+1 times has dispatched    *)
(* on_error R+1 times, and a call that failed and then succeeded           *)
(* on_error for each failure and on_success once.                          *)
(***************************************************************************)
HooksOf(t, status) ==
  IF status = StatusOK
    THEN <<JobOf(t).OnSuccess>> \o (IF sched.hasSchedule THEN <<sched.OnSuccess>> ELSE <<>>)
    ELSE <<JobOf(t).OnError>> \o (IF sched.hasSchedule THEN <<sched.OnError>> ELSE <<>>)

EntriesOf(t, status, field, x) ==
  LET hs == HooksOf(t, status)
      count(i) == Occurrences(x, hs[i][field])
  IN IF Len(hs) = 1 THEN count(1) ELSE count(1) + count(2)

\* the g-th dispatch of t is the fan-out of the event of status
Dispatched(t, g, status) ==
  LET cs == Children(t, g)
  IN /\ \A c \in cs : tasks[c].pstatus = Some(status)
     /\ \A b \in {"A", "B", "X"} :
          Cardinality({c \in cs : tasks[c].kind = "retry" /\ tasks[c].job = b})
            = EntriesOf(t, status, "TriggerJob", b)
     /\ \A k \in DOMAIN HookKinds, u \in {"s", "w", "d"} :
          Cardinality({c \in cs : /\ tasks[c].kind = "webhook"
                                  /\ tasks[c].hook = k /\ tasks[c].trigger = u})
            = EntriesOf(t, status, HookKinds[k], u)

C31_FanOutPerAttempt ==
  \A t \in TaskIds :
    (tasks[t].kind = "retry" /\ ~CtxErr(t) /\ Started(t)) =>
      /\ tasks[t].events =
           (IF tasks[t].pc \in {"finalize", "append", "OnEvent"}
              THEN Len(tasks[t].execs) - 1 ELSE Len(tasks[t].execs))
      /\ \A g \in 1..tasks[t].events : Dispatched(t, g, tasks[t].execs[g])
      /\ (tasks[t].pc = "done" /\ AllFailed(t)) => tasks[t].events = JobOf(t).Retries + 1

\* a call that failed, dispatched on_error, succeeded and dispatched
\* on_success
C31_Witness ==
  \E t \in TaskIds :
    /\ tasks[t].kind = "retry" /\ ~CtxErr(t) /\ tasks[t].pc = "done"
    /\ tasks[t].execs = <<2, StatusOK>> /\ tasks[t].events = 2
    /\ Cardinality(Children(t, 1)) = 1 /\ Cardinality(Children(t, 2)) = 2
    /\ \E c \in Children(t, 2) : tasks[c].kind = "webhook"

(***************************************************************************)
(* C32: between two consecutive executor attempts of one call the back-off *)
(* timer fires: the number of attempts started never exceeds the number of *)
(* back-off timers fired plus one, and a call that took the cancellation   *)
(* branch of the back-off has returned without a further attempt.          *)
(***************************************************************************)
AttemptsStarted(t) ==
  Len(tasks[t].execs) + (IF tasks[t].pc = "wait" THEN 1 ELSE 0)

\* the call returned from the cancellation branch of the back-off
CancelledInBackoff(t) ==
  /\ tasks[t].pc = "done" /\ tasks[t].jr.Log # <<>>
  /\ tasks[t].jr.Log[Len(tasks[t].jr.Log)] = RetryCancelledNotice

C32_BackoffBetweenAttempts ==
  \A t \in TaskIds :
    tasks[t].kind = "retry" =>
      /\ AttemptsStarted(t) <= tasks[t].fired + 1
      /\ tasks[t].pc \in {"wait", "finalize", "append", "OnEvent", "wg.Wait"}
           => tasks[t].fired = tasks[t].tries
      /\ CancelledInBackoff(t) =>
           /\ tasks[t].fired = tasks[t].tries - 1
           /\ AttemptsStarted(t) = tasks[t].tries

\* a second attempt after a fired timer, in a call that a cancellation
\* during the following back-off ended
C32_Witness ==
  \E t \in TaskIds :
    /\ tasks[t].kind = "retry" /\ CancelledInBackoff(t)
    /\ Len(tasks[t].execs) = 2 /\ tasks[t].fired = 1

(***************************************************************************)
(* C33: exec_with_retry eventually returns when every child process ends   *)
(* and the context is never cancelled, whatever the schedule; in           *)
(* particular the fan-out wait never blocks on a per-job lock held by an   *)
(* ancestor that waits for it.  A run in such a state never returns, so    *)
(* the claim requires that no such state is reachable.                     *)
(***************************************************************************)
\* run c waits for the lock of its job, which ancestor a holds while a waits
\* in wg.Wait for the fan-out that c belongs to
LockedOut(a, c) ==
  /\ tasks[c].pc = "go" /\ tasks[c].job \in JobNames
  /\ JobOf(c).DisableConcurrentExecution
  /\ IsAncestor(a, c)
  /\ tasks[a].job = tasks[c].job /\ tasks[a].locked /\ tasks[a].pc = "wg.Wait"

C33_AlwaysReturns ==
  ~ctxCancelled => \A a, c \in TaskIds : ~LockedOut(a, c)

(***************************************************************************)
(* C34: the run that exec_with_retry returns agrees with the row persisted *)
(* for it: on every return path the row with the run's key exists and its  *)
(* status and message equal the returned status and log (healthy store, no *)
(* other run on the same key).                                             *)
(***************************************************************************)
C34_ReturnedRunIsRow ==
  \A t \in TaskIds :
    (tasks[t].kind = "retry" /\ tasks[t].pc = "done" /\ StoreHealthy /\ Exclusive(t))
    => /\ RowsOf(t) # {}
       /\ \A r \in RowsOf(t) : /\ r.status = tasks[t].jr.Status
                               /\ r.message = tasks[t].jr.Log

(***************************************************************************)
(* C35: after upsert_run(run) has returned without error for a run whose   *)
(* log_entry_id was 0, run.log_entry_id is the id of the row with the      *)
(* run's (job, triggered_at, triggered_by), whether the row was inserted   *)
(* by the call or existed before it, with other rows inserted in between.  *)
(***************************************************************************)
C35_UpsertFillsId ==
  (op.name = "upsert" /\ ~op.err /\ op.jr.LogEntryId = 0)
  => \E r \in db.log : RowKey(r) = RunKey(op.jr) /\ r.id = op.out.LogEntryId

(***************************************************************************)
(* C36: load_run(name, id) with id # -1 only returns a run of job name:    *)
(* when it succeeds, the row with that id is a row of job name, and when   *)
(* the row with that id belongs to another job it fails.                   *)
(***************************************************************************)
C36_LoadRunOfJob ==
  (op.name = "load_run" /\ op.id # 0 - 1 /\ ~op.err)
  => \E r \in db.log : r.id = op.id /\ r.job = op.job

(***************************************************************************)
(* C37: with no store configured every finalize call appends exactly one   *)
(* entry to the job's Runs list, also when runs of the same job finalize   *)
(* concurrently: once no append is under way, the length of Runs equals    *)
(* the number of finalize calls of the job.                                *)
(***************************************************************************)
\* finalize calls of task t that have passed the append
Finalized(t) ==
  IF ~IsRun(t) THEN 0
  ELSE tasks[t].events + (IF tasks[t].pc = "OnEvent" THEN 1 ELSE 0)

RECURSIVE FinalizeCalls(_, _)
FinalizeCalls(j, n) ==
  IF n = 0 THEN 0
  ELSE FinalizeCalls(j, n - 1) + (IF tasks[n].job = j THEN Finalized(n) ELSE 0)

C37_RunsCountsFinalize ==
  (sched.store = "none" /\ ~panicked /\ \A t \in TaskIds : tasks[t].pc # "append")
  => \A j \in JobNames : Len(Runs[j]) = FinalizeCalls(j, Len(tasks))

====
